---- MODULE Spec2Model ----
(***************************************************************************)
(* A model of scraper.py: one run of scrape_group_memberships().  The run  *)
(* launches a browser, logs in, opens the group-memberships report,        *)
(* extracts the rendered table through selector cascades, splits the       *)
(* "Members" column and writes a dated CSV file or diagnostics.            *)
(*                                                                         *)
(* The page is the environment: what a query returns, and whether a page   *)
(* interaction raises, is drawn when the code asks.  Strings are TLA+      *)
(* strings; strip and split are computed character by character.           *)
(***************************************************************************)
EXTENDS Integers, Sequences, FiniteSets, TLC

\* ------------------------------------------------------------ bounds

\* The most visible input controls the login page shows.
MaxInputs == 3
\* The most elements one header selector matches.
MaxHeaders == 2
\* The most rows one row selector matches.
MaxRows == 3
\* The most cells the rows one row selector matches hold, all rows together.
MaxCells == 2

\* The longest Members cell text of the cell-splitting specification.
MaxText == 5

\* Raw texts a header element may hold (inner_text, before strip).
HeaderTexts == {" ", "Name", " Members\n", "Members"}
\* Raw texts a cell may hold (inner_text, before strip).
CellTexts == {" ", "12", " 3 / 5\nFull", "/"}

\* ------------------------------------------------------------ strings

Min(S) == CHOOSE m \in S : \A n \in S : m <= n
Max(S) == CHOOSE m \in S : \A n \in S : m >= n

\* s[i-1] of Python, as a one-character string.
CharAt(s, i) == SubSeq(s, i, i)

\* The characters str.strip() removes.
Whitespace == {" ", "\n", "\t", "\r"}

\* str.strip()
strip(s) ==
    LET keep == {i \in 1..Len(s) : CharAt(s, i) \notin Whitespace}
    IN  IF keep = {} THEN "" ELSE SubSeq(s, Min(keep), Max(keep))

\* str.split(sep) for a one-character separator: the list of all parts.
RECURSIVE split(_, _)
split(s, sep) ==
    LET at == {i \in 1..Len(s) : CharAt(s, i) = sep}
    IN  IF at = {} THEN <<s>>
        ELSE <<SubSeq(s, 1, Min(at) - 1)>>
                 \o split(SubSeq(s, Min(at) + 1, Len(s)), sep)

\* sep in s
Contains(s, sep) == \E i \in 1..Len(s) : CharAt(s, i) = sep

\* All sequences over S of length at most n.
SeqsUpTo(S, n) == UNION {[1..k -> S] : k \in 0..n}

\* ------------------------------------------------------------ selectors

email_selectors ==
    << "input[type=\"email\"]", "input[name=\"email\"]",
       "input[name=\"username\"]", "input[placeholder*=\"email\" i]",
       "input[placeholder*=\"username\" i]", "#email", "#username" >>

password_selectors ==
    << "input[type=\"password\"]", "input[name=\"password\"]", "#password" >>

submit_selectors ==
    << "button[type=\"submit\"]", "input[type=\"submit\"]",
       "button:has-text(\"Log in\")", "button:has-text(\"Login\")",
       "button:has-text(\"Sign in\")", "button:has-text(\"Submit\")" >>

tab_selectors ==
    << "a:has-text(\"Group Memberships\")",
       "button:has-text(\"Group Memberships\")",
       "[role=\"tab\"]:has-text(\"Group Memberships\")",
       "nav a:has-text(\"Group\")" >>

show_all_selectors ==
    << "select option:has-text(\"All\")", "button:has-text(\"Show all\")",
       "a:has-text(\"Show all\")", "[data-testid=\"rows-per-page\"]" >>

header_selectors ==
    << "table thead th", "table th", "[role=\"columnheader\"]", ".header-cell" >>

row_selectors ==
    << "table tbody tr", "table tr:not(:first-child)", "[role=\"row\"]" >>

\* ------------------------------------------------------------ state

VARIABLES
    pc,              \* the statement the run is at
    playwright,      \* the sync_playwright() context: "running", "stopped"
    browser,         \* "none", "open", "closed" (closed: browser.close() ran)
    url,             \* the address the page shows: "blank", "login", "target"
    idx,             \* position in the selector list being tried (1-based)
    email_filled,    \* the flag of that name
    password_filled, \* the flag of that name
    typed,           \* fields of the shown document that were filled: <<selector, value>>
    clicked,         \* controls of the login form that were clicked
    outcome,         \* how the latest page interaction ended
    caught,          \* the error bound to e by the login handler, or "none"
    exc,             \* the error leaving the function, or "none"
    headers,         \* the list of that name
    header_elements, \* texts of the elements of the header selector being read
    rows_data,       \* the list of that name
    rows_left,       \* rows of the current row selector not read yet
    cells_seen,      \* cells read from the rows of the current row selector
    csv,             \* the dated CSV file: [exists, records]
    files            \* diagnostic files written by this run

vars == << pc, playwright, browser, url, idx, email_filled, password_filled,
           typed, clicked, outcome, caught, exc, headers, header_elements,
           rows_data, rows_left, cells_seen, csv, files >>

\* The variables of the login form, of the extracted table, and of the output.
formVars == << email_filled, password_filled, typed, clicked >>
tableVars == << headers, header_elements, rows_data, rows_left, cells_seen >>
outVars == << csv, files >>

\* The dated file before the run: absent, or left by an earlier run that day.
NoCsv == [exists |-> FALSE, records |-> << >>]
OldCsv == [exists |-> TRUE, records |-> << <<"Name">>, <<"old">> >>]

Init ==
    /\ pc = "launch"
    /\ playwright = "running"
    /\ browser = "none"
    /\ url = "blank"
    /\ idx = 1
    /\ email_filled = FALSE
    /\ password_filled = FALSE
    /\ typed = {}
    /\ clicked = {}
    /\ outcome = "ok"
    /\ caught = "none"
    /\ exc = "none"
    /\ headers = << >>
    /\ header_elements = << >>
    /\ rows_data = << >>
    /\ rows_left = 0
    /\ cells_seen = 0
    /\ csv \in {NoCsv, OldCsv}
    /\ files = {}

\* ------------------------------------------------------------ errors

\* How a page interaction ends: "ok" (done, or the query matched), "miss" (the
\* query matched nothing), "timeout" (Playwright's TimeoutError), "error" (any
\* other error), "NameError" (an unbound name in the script itself).
\* A wait for the network to settle ends in either error; for any other
\* interaction the kind of error changes nothing the code does.
WaitErrors == {"timeout", "error"}
QueryErrors == {"error"}

\* An error raised outside every try block: it leaves the function.
Uncaught(kind) ==
    /\ outcome' = kind
    /\ exc' = kind
    /\ pc' = "unwinding"

\* An error raised inside the login try block: except Exception binds it.
Caught(kind) ==
    /\ outcome' = kind
    /\ caught' = kind
    /\ pc' = "login_error"

\* ------------------------------------------------------------ login

\* browser = p.chromium.launch(...); context; page
Launch ==
    /\ pc = "launch"
    /\ \/ /\ browser' = "open"
          /\ outcome' = "ok"
          /\ pc' = "goto_login"
          /\ UNCHANGED exc
       \/ /\ Uncaught("error")
          /\ UNCHANGED browser
    /\ UNCHANGED << playwright, url, idx, caught, formVars, tableVars, outVars >>

\* page.goto(LOGIN_URL, wait_until="networkidle")
GotoLogin ==
    /\ pc = "goto_login"
    /\ \/ /\ url' = "login"
          /\ outcome' = "ok"
          /\ pc' = "email"
          /\ idx' = 1
          /\ UNCHANGED exc
       \/ /\ \E kind \in WaitErrors : Uncaught(kind)
          /\ UNCHANGED << url, idx >>
    /\ UNCHANGED << playwright, browser, caught, formVars, tableVars, outVars >>

\* Where a selector loop goes when the candidate at idx did not match.
NextCandidate(selectors, here, after) ==
    IF idx < Len(selectors)
    THEN pc' = here /\ idx' = idx + 1
    ELSE pc' = after /\ idx' = 1

\* for selector in email_selectors: try ... except: continue
EmailSelector ==
    /\ pc = "email"
    /\ \/ \* count() > 0 and the fill succeeded: break
          /\ typed' = typed \cup {<<email_selectors[idx], "username">>}
          /\ email_filled' = TRUE
          /\ outcome' = "ok"
          /\ pc' = "password"
          /\ idx' = 1
       \/ \* count() = 0
          /\ outcome' = "miss"
          /\ NextCandidate(email_selectors, "email", "fallback")
          /\ UNCHANGED << typed, email_filled >>
       \/ \* count() or fill raised: except: continue
          /\ \E kind \in QueryErrors : outcome' = kind
          /\ NextCandidate(email_selectors, "email", "fallback")
          /\ UNCHANGED << typed, email_filled >>
    /\ UNCHANGED << playwright, browser, url, password_filled, clicked, caught,
                    exc, tableVars, outVars >>

\* if not email_filled: inputs = page.locator('input:visible')
\*     if inputs.count() >= 2:
FallbackCount ==
    /\ pc = "fallback"
    /\ \/ \E n \in 0..MaxInputs :
             /\ outcome' = "ok"
             /\ IF n >= 2
                THEN pc' = "fallback_fill" /\ UNCHANGED idx
                ELSE pc' = "password" /\ idx' = 1
             /\ UNCHANGED caught
       \/ \* inputs.count() raised
          /\ \E kind \in QueryErrors : Caught(kind)
          /\ UNCHANGED idx
    /\ UNCHANGED << playwright, browser, url, exc, formVars, tableVars, outVars >>

\* inputs.nth(0).fill(USERNAME); email_filled = True
\* USERNAME is bound nowhere in the file (the prompt's answer is username):
\* evaluating the argument raises NameError before fill is called, so no
\* input is filled and the flag is never set here.
FallbackFill ==
    /\ pc = "fallback_fill"
    /\ Caught("NameError")
    /\ UNCHANGED << playwright, browser, url, idx, exc, formVars, tableVars,
                    outVars >>

\* for selector in password_selectors: try ... except: continue
PasswordSelector ==
    /\ pc = "password"
    /\ \/ /\ typed' = typed \cup {<<password_selectors[idx], "password">>}
          /\ password_filled' = TRUE
          /\ outcome' = "ok"
          /\ pc' = "submit"
          /\ idx' = 1
       \/ /\ outcome' = "miss"
          /\ NextCandidate(password_selectors, "password", "submit")
          /\ UNCHANGED << typed, password_filled >>
       \/ /\ \E kind \in QueryErrors : outcome' = kind
          /\ NextCandidate(password_selectors, "password", "submit")
          /\ UNCHANGED << typed, password_filled >>
    /\ UNCHANGED << playwright, browser, url, email_filled, clicked, caught, exc,
                    tableVars, outVars >>

\* for selector in submit_selectors: try ... except: continue
SubmitSelector ==
    /\ pc = "submit"
    /\ \/ /\ clicked' = clicked \cup {submit_selectors[idx]}
          /\ outcome' = "ok"
          /\ pc' = "settle"
          /\ idx' = 1
       \/ /\ outcome' = "miss"
          /\ NextCandidate(submit_selectors, "submit", "settle")
          /\ UNCHANGED clicked
       \/ /\ \E kind \in QueryErrors : outcome' = kind
          /\ NextCandidate(submit_selectors, "submit", "settle")
          /\ UNCHANGED clicked
    /\ UNCHANGED << playwright, browser, url, email_filled, password_filled,
                    typed, caught, exc, tableVars, outVars >>

\* page.wait_for_load_state("networkidle", timeout=15000), inside the try
\* whose only handler is except Exception: it binds a TimeoutError too.
Settle ==
    /\ pc = "settle"
    /\ \/ /\ outcome' = "ok"
          /\ pc' = "goto_target"
          /\ UNCHANGED caught
       \/ \E kind \in WaitErrors : Caught(kind)
    /\ UNCHANGED << playwright, browser, url, idx, exc, formVars, tableVars,
                    outVars >>

\* except Exception as e: page.screenshot(path=".../login_error.png")
LoginErrorScreenshot ==
    /\ pc = "login_error"
    /\ \/ /\ files' = files \cup {"login_error.png"}
          /\ outcome' = "ok"
          /\ pc' = "login_close"
          /\ UNCHANGED exc
       \/ /\ \E kind \in QueryErrors : Uncaught(kind)
          /\ UNCHANGED files
    /\ UNCHANGED << playwright, browser, url, idx, caught, formVars, tableVars,
                    csv >>

\* A faulty variant of LoginErrorClose: the handler closes the browser but
\* does not return, so the run falls through to the navigation.
LoginErrorClose_NoReturn ==
    /\ pc = "login_close"
    /\ browser' = "closed"
    /\ pc' = "goto_target"
    /\ UNCHANGED << playwright, url, idx, outcome, caught, exc, formVars,
                    tableVars, outVars >>

\* browser.close(); return
LoginErrorClose ==
    /\ pc = "login_close"
    /\ browser' = "closed"
    /\ pc' = "returning"
    /\ UNCHANGED << playwright, url, idx, outcome, caught, exc, formVars,
                    tableVars, outVars >>

\* ------------------------------------------------------------ navigation

\* page.goto(TARGET_URL, wait_until="networkidle"); page.wait_for_timeout(2000)
\* The login document is replaced: its fields and controls are gone.
GotoTarget ==
    /\ pc = "goto_target"
    /\ \/ /\ url' = "target"
          /\ typed' = {}
          /\ clicked' = {}
          /\ outcome' = "ok"
          /\ pc' = "tab"
          /\ idx' = 1
          /\ UNCHANGED exc
       \/ /\ \E kind \in WaitErrors : Uncaught(kind)
          /\ UNCHANGED << url, typed, clicked, idx >>
    /\ UNCHANGED << playwright, browser, caught, email_filled, password_filled,
                    tableVars, outVars >>

\* try: for selector in tab_selectors: ... except: pass
\* One try holds the whole loop: an error at any candidate ends the loop.
TabSelector ==
    /\ pc = "tab"
    /\ \/ \* count() > 0 and the click succeeded
          /\ outcome' = "ok"
          /\ pc' = "tab_settle"
          /\ idx' = 1
       \/ \* count() = 0
          /\ outcome' = "miss"
          /\ NextCandidate(tab_selectors, "tab", "grace")
       \/ \* count() or click() raised: except: pass
          /\ \E kind \in QueryErrors : outcome' = kind
          /\ pc' = "grace"
          /\ idx' = 1
    /\ UNCHANGED << playwright, browser, url, caught, exc, formVars, tableVars,
                    outVars >>

\* page.wait_for_load_state("networkidle") after the tab click, then break;
\* the wait is inside the same try.
TabSettle ==
    /\ pc = "tab_settle"
    /\ \/ outcome' = "ok"
       \/ \* the wait raised: except: pass
          \E kind \in WaitErrors : outcome' = kind
    /\ pc' = "grace"
    /\ UNCHANGED << playwright, browser, url, idx, caught, exc, formVars,
                    tableVars, outVars >>

\* page.wait_for_timeout(2000)
Grace ==
    /\ pc = "grace"
    /\ outcome' = "ok"
    /\ pc' = "show_all"
    /\ UNCHANGED << playwright, browser, url, idx, caught, exc, formVars,
                    tableVars, outVars >>

\* try: for selector in show_all_selectors: ... except: pass
ShowAllSelector ==
    /\ pc = "show_all"
    /\ \/ \* count() > 0 and the click succeeded
          /\ outcome' = "ok"
          /\ pc' = "show_all_settle"
          /\ idx' = 1
       \/ \* count() = 0
          /\ outcome' = "miss"
          /\ NextCandidate(show_all_selectors, "show_all", "headers")
       \/ \* count() or click() raised: except: pass
          /\ \E kind \in QueryErrors : outcome' = kind
          /\ pc' = "headers"
          /\ idx' = 1
    /\ UNCHANGED << playwright, browser, url, caught, exc, formVars, tableVars,
                    outVars >>

\* page.wait_for_load_state("networkidle") after the show-all click, then
\* break; the wait is inside the same try.
ShowAllSettle ==
    /\ pc = "show_all_settle"
    /\ \/ outcome' = "ok"
       \/ \* the wait raised: except: pass
          \E kind \in WaitErrors : outcome' = kind
    /\ pc' = "headers"
    /\ UNCHANGED << playwright, browser, url, idx, caught, exc, formVars,
                    tableVars, outVars >>

\* ------------------------------------------------------------ extraction

\* A faulty variant of Labels: the empty texts are kept.
Labels_KeepEmpty(elems) == [i \in 1..Len(elems) |-> strip(elems[i])]

\* The labels one header selector yields: each element's inner_text().strip(),
\* the empty ones left out.
Labels(elems) ==
    SelectSeq([i \in 1..Len(elems) |-> strip(elems[i])], LAMBDA t : t # "")

\* row_data of one row: each cell's inner_text().strip().
RowData(cells) == [j \in 1..Len(cells) |-> strip(cells[j])]

\* any(row_data): some cell is a non-empty string.
any(row_data) == \E j \in 1..Len(row_data) : row_data[j] # ""

\* for selector in header_selectors: header_elements = page.locator(selector);
\* if header_elements.count() > 0: ...
HeaderSelector ==
    /\ pc = "headers"
    /\ \/ \E elems \in SeqsUpTo(HeaderTexts, MaxHeaders) :
             /\ header_elements' = elems
             /\ outcome' = IF elems # << >> THEN "ok" ELSE "miss"
             /\ IF elems # << >>
                THEN pc' = "labels" /\ UNCHANGED idx
                ELSE NextCandidate(header_selectors, "headers", "page_state")
             /\ UNCHANGED exc
       \/ \* count() raised
          /\ \E kind \in QueryErrors : Uncaught(kind)
          /\ UNCHANGED << header_elements, idx >>
    /\ UNCHANGED << playwright, browser, url, caught, formVars, headers,
                    rows_data, rows_left, cells_seen, outVars >>

\* for i in range(header_elements.count()): ... headers.append(text)
\* if headers: break
HeaderLabels ==
    /\ pc = "labels"
    /\ \/ /\ headers' = headers \o Labels(header_elements)
          /\ header_elements' = << >>
          /\ outcome' = "ok"
          /\ IF headers' # << >>
             THEN pc' = "rows" /\ idx' = 1
             ELSE NextCandidate(header_selectors, "headers", "page_state")
          /\ UNCHANGED exc
       \/ \* inner_text() raised
          /\ \E kind \in QueryErrors : Uncaught(kind)
          /\ UNCHANGED << headers, header_elements, idx >>
    /\ UNCHANGED << playwright, browser, url, caught, formVars, rows_data,
                    rows_left, cells_seen, outVars >>

\* if not headers: page.screenshot(path=".../page_state.png")
PageState ==
    /\ pc = "page_state"
    /\ \/ /\ files' = files \cup {"page_state.png"}
          /\ outcome' = "ok"
          /\ pc' = "rows"
          /\ UNCHANGED exc
       \/ /\ \E kind \in QueryErrors : Uncaught(kind)
          /\ UNCHANGED files
    /\ UNCHANGED << playwright, browser, url, idx, caught, formVars, tableVars,
                    csv >>

\* for selector in row_selectors: row_count = row_elements.count()
RowSelector ==
    /\ pc = "rows"
    /\ \/ \E row_count \in 0..MaxRows :
             /\ IF row_count > 0
                THEN pc' = "cells" /\ rows_left' = row_count /\ UNCHANGED idx
                ELSE /\ NextCandidate(row_selectors, "rows", "synth")
                     /\ UNCHANGED rows_left
             /\ outcome' = IF row_count > 0 THEN "ok" ELSE "miss"
             /\ UNCHANGED exc
       \/ /\ \E kind \in QueryErrors : Uncaught(kind)
          /\ UNCHANGED << idx, rows_left >>
    /\ UNCHANGED << playwright, browser, url, caught, formVars, headers,
                    header_elements, rows_data, cells_seen, outVars >>

\* A faulty variant of ReadRow: after the last row of a selector the next
\* selector is tried even when rows were kept.
ReadRow_NoBreak ==
    /\ pc = "cells"
    /\ \/ \E cells \in SeqsUpTo(CellTexts, MaxCells - cells_seen) :
             /\ rows_data' =
                    IF Len(cells) > 0 /\ any(RowData(cells))
                    THEN Append(rows_data, RowData(cells))
                    ELSE rows_data
             /\ rows_left' = rows_left - 1
             /\ IF rows_left' > 0
                THEN /\ pc' = "cells"
                     /\ cells_seen' = cells_seen + Len(cells)
                     /\ UNCHANGED idx
                ELSE /\ cells_seen' = 0
                     /\ NextCandidate(row_selectors, "rows", "synth")
             /\ outcome' = IF cells # << >> THEN "ok" ELSE "miss"
             /\ UNCHANGED exc
       \/ /\ \E kind \in QueryErrors : Uncaught(kind)
          /\ UNCHANGED << idx, rows_data, rows_left, cells_seen >>
    /\ UNCHANGED << playwright, browser, url, caught, formVars, headers,
                    header_elements, outVars >>

\* for i in range(row_count): the cells of row i; the row is appended when it
\* has a cell and any(row_data).  After the last row: if rows_data: break
ReadRow ==
    /\ pc = "cells"
    /\ \/ \E cells \in SeqsUpTo(CellTexts, MaxCells - cells_seen) :
             /\ rows_data' =
                    IF Len(cells) > 0 /\ any(RowData(cells))
                    THEN Append(rows_data, RowData(cells))
                    ELSE rows_data
             /\ rows_left' = rows_left - 1
             /\ IF rows_left' > 0
                THEN /\ pc' = "cells"
                     /\ cells_seen' = cells_seen + Len(cells)
                     /\ UNCHANGED idx
                ELSE /\ cells_seen' = 0
                     /\ IF rows_data' # << >>
                        THEN pc' = "synth" /\ idx' = 1
                        ELSE NextCandidate(row_selectors, "rows", "synth")
             /\ outcome' = IF cells # << >> THEN "ok" ELSE "miss"
             /\ UNCHANGED exc
       \/ \* cells.count() or inner_text() raised
          /\ \E kind \in QueryErrors : Uncaught(kind)
          /\ UNCHANGED << idx, rows_data, rows_left, cells_seen >>
    /\ UNCHANGED << playwright, browser, url, caught, formVars, headers,
                    header_elements, outVars >>

\* A faulty variant of SyntheticHeaders: the labels are numbered from 0.
SyntheticHeaders_FromZero(rows) ==
    [i \in 1..Len(rows[1]) |-> "Column_" \o ToString(i - 1)]

\* [f"Column_{i+1}" for i in range(len(rows_data[0]))]
SyntheticHeaders(rows) ==
    [i \in 1..Len(rows[1]) |-> "Column_" \o ToString(i)]

\* if not headers and rows_data: headers = [...]
SynthHeaders ==
    /\ pc = "synth"
    /\ headers' = IF headers = << >> /\ rows_data # << >>
                  THEN SyntheticHeaders(rows_data)
                  ELSE headers
    /\ pc' = "normalize"
    /\ UNCHANGED << playwright, browser, url, idx, outcome, caught, exc, formVars,
                    header_elements, rows_data, rows_left, cells_seen, outVars >>

\* ------------------------------------------------------------ normalizer

\* x in list
In(x, list) == \E i \in 1..Len(list) : list[i] = x

\* A faulty variant of index: the last position holding x.
index_Last(list, x) == Max({i \in 1..Len(list) : list[i] = x})

\* list.index(x), counted from 1: the first position holding x.
index(list, x) == Min({i \in 1..Len(list) : list[i] = x})

\* list[:k-1] and list[k:] of Python for the 1-based position k.
Before(list, k) == SubSeq(list, 1, k - 1)
After(list, k) == SubSeq(list, k + 1, Len(list))

\* A faulty variant of SplitMembers: the whole cell text, not its first line.
SplitMembers_AllLines(members_value) ==
    LET members_clean == strip(members_value)
        parts == split(members_clean, "/")
    IN  IF Contains(members_clean, "/")
        THEN << strip(parts[1]), strip(parts[2]) >>
        ELSE << members_clean, "" >>

\* The pair (active, possible) read from one Members cell.
SplitMembers(members_value) ==
    LET members_clean == strip(split(members_value, "\n")[1])
        parts == split(members_clean, "/")
    IN  IF Contains(members_clean, "/")
        THEN << strip(parts[1]), strip(parts[2]) >>
        ELSE << members_clean, "" >>

\* headers[:members_idx] + ["Active Members", "Possible Members"] + headers[members_idx + 1:]
SplitHeaders(hdrs, k) ==
    Before(hdrs, k) \o << "Active Members", "Possible Members" >> \o After(hdrs, k)

\* One row of the loop: untouched when it has no cell at the Members position.
SplitRow(row, k) ==
    IF k <= Len(row)
    THEN Before(row, k) \o SplitMembers(row[k]) \o After(row, k)
    ELSE row

\* A faulty variant of Normalize: the column is any label ending in "Members".
Normalize_AnyMembers(here, after) ==
    LET named == {i \in 1..Len(headers) :
                     /\ Len(headers[i]) >= 7
                     /\ SubSeq(headers[i], Len(headers[i]) - 6, Len(headers[i]))
                            = "Members"}
    IN  /\ pc = here
        /\ IF named # {}
           THEN /\ headers' = SplitHeaders(headers, Min(named))
                /\ rows_data' = [i \in 1..Len(rows_data) |->
                                     SplitRow(rows_data[i], Min(named))]
           ELSE UNCHANGED << headers, rows_data >>
        /\ pc' = after
        /\ UNCHANGED << playwright, browser, url, idx, outcome, caught, exc,
                        formVars, header_elements, rows_left, cells_seen,
                        outVars >>

\* if "Members" in headers: ... applied to the headers and rows at hand, by a
\* step from the position here to the position after.
Normalize(here, after) ==
    /\ pc = here
    /\ IF In("Members", headers)
       THEN LET members_idx == index(headers, "Members")
            IN  /\ headers' = SplitHeaders(headers, members_idx)
                /\ rows_data' = [i \in 1..Len(rows_data) |->
                                     SplitRow(rows_data[i], members_idx)]
       ELSE UNCHANGED << headers, rows_data >>
    /\ pc' = after
    /\ UNCHANGED << playwright, browser, url, idx, outcome, caught, exc, formVars,
                    header_elements, rows_left, cells_seen, outVars >>

\* The normalizer of the run, between the header fallback and the export.
NormalizeMembers == Normalize("normalize", "export")

\* The same block applied once more, to the headers and rows it produced.
NormalizeAgain == Normalize("export", "normalized_again")

\* ------------------------------------------------------------ exporter

\* A faulty variant of HasData: the CSV branch is taken whatever was found.
HasData_Always(hdrs, rows) == TRUE

\* if headers or rows_data
HasData(hdrs, rows) == hdrs # << >> \/ rows # << >>

\* A faulty variant of Records: the rows first, the headers after them.
Records_RowsFirst(hdrs, rows) == rows \o (IF hdrs # << >> THEN << hdrs >> ELSE << >>)

\* The records the writer is given: headers when non-empty, then every row.
Records(hdrs, rows) == (IF hdrs # << >> THEN << hdrs >> ELSE << >>) \o rows

\* with open(csv_path, 'w', ...) as csvfile: writer.writerow(...)
\* open creates or truncates the file; an error may stop the writing part-way.
ExportCsv ==
    /\ pc = "export"
    /\ IF HasData(headers, rows_data)
       THEN \/ /\ csv' = [exists |-> TRUE, records |-> Records(headers, rows_data)]
               /\ pc' = "close"
               /\ UNCHANGED << outcome, exc >>
            \/ \* open raised
               /\ Uncaught("error")
               /\ UNCHANGED csv
            \/ \* a write raised after n records
               \E n \in 0..(Len(Records(headers, rows_data)) - 1) :
                  /\ csv' = [exists |-> TRUE,
                             records |-> SubSeq(Records(headers, rows_data), 1, n)]
                  /\ Uncaught("error")
       ELSE /\ pc' = "no_data"
            /\ UNCHANGED << csv, outcome, exc >>
    /\ UNCHANGED << playwright, browser, url, idx, caught, formVars, tableVars,
                    files >>

\* page.screenshot(path=".../no_data_found.png")
NoDataScreenshot ==
    /\ pc = "no_data"
    /\ \/ /\ files' = files \cup {"no_data_found.png"}
          /\ outcome' = "ok"
          /\ pc' = "dump"
          /\ UNCHANGED exc
       \/ /\ \E kind \in QueryErrors : Uncaught(kind)
          /\ UNCHANGED files
    /\ UNCHANGED << playwright, browser, url, idx, caught, formVars, tableVars,
                    csv >>

\* html_content = page.content(); open(".../page_debug.html", 'w').write(...)
DumpHtml ==
    /\ pc = "dump"
    /\ \/ /\ files' = files \cup {"page_debug.html"}
          /\ outcome' = "ok"
          /\ pc' = "close"
          /\ UNCHANGED exc
       \/ /\ \E kind \in QueryErrors : Uncaught(kind)
          /\ UNCHANGED files
    /\ UNCHANGED << playwright, browser, url, idx, caught, formVars, tableVars,
                    csv >>

\* browser.close(); print("Done!")
Close ==
    /\ pc = "close"
    /\ browser' = "closed"
    /\ pc' = "returning"
    /\ UNCHANGED << playwright, url, idx, outcome, caught, exc, formVars, tableVars,
                    outVars >>

\* Leaving the with sync_playwright() block, by return or by an error.
ExitWith ==
    /\ pc \in {"returning", "unwinding"}
    /\ playwright' = "stopped"
    /\ pc' = IF pc = "returning" THEN "done" ELSE "failed"
    /\ UNCHANGED << browser, url, idx, outcome, caught, exc, formVars, tableVars,
                    outVars >>

\* ------------------------------------------------------------ the run

Next ==
    \/ Launch
    \/ GotoLogin
    \/ EmailSelector
    \/ FallbackCount
    \/ FallbackFill
    \/ PasswordSelector
    \/ SubmitSelector
    \/ Settle
    \/ LoginErrorScreenshot
    \/ LoginErrorClose
    \/ GotoTarget
    \/ TabSelector
    \/ TabSettle
    \/ Grace
    \/ ShowAllSelector
    \/ ShowAllSettle
    \/ HeaderSelector
    \/ HeaderLabels
    \/ PageState
    \/ RowSelector
    \/ ReadRow
    \/ SynthHeaders
    \/ NormalizeMembers
    \/ ExportCsv
    \/ NoDataScreenshot
    \/ DumpHtml
    \/ Close
    \/ ExitWith

Spec == Init /\ [][Next]_vars

\* ------------------------------------------------------------ one cell

\* The characters of a Members cell: a digit, the separator, a blank, a line
\* break.
CellChars == {"1", "/", " ", "\n"}

\* All strings over CellChars of length at most n.
RECURSIVE Strings(_)
Strings(n) ==
    IF n = 0 THEN {""}
    ELSE {""} \cup {c \o t : c \in CellChars, t \in Strings(n - 1)}

\* The run just before the normalizer, after a login through the first
\* selectors, with headers Name, Members, Notes and one row whose Members
\* cell is any stripped text (what ReadRow stores for a cell holding that
\* text) and whose Notes cell holds the same text.
InitSplit ==
    /\ pc = "normalize"
    /\ playwright = "running"
    /\ browser = "open"
    /\ url = "target"
    /\ idx = 1
    /\ email_filled = TRUE
    /\ password_filled = TRUE
    /\ typed = {}
    /\ clicked = {}
    /\ outcome = "ok"
    /\ caught = "none"
    /\ exc = "none"
    /\ headers = << "Name", "Members", "Notes" >>
    /\ header_elements = << >>
    /\ \E t \in Strings(MaxText) : rows_data = << RowData(<< "TeamA", t, t >>) >>
    /\ rows_left = 0
    /\ cells_seen = 0
    /\ csv = NoCsv
    /\ files = {}

NextSplit == NormalizeMembers

SpecSplit == InitSplit /\ [][NextSplit]_vars

\* ------------------------------------------------------------ the table

\* The run on the target page, after a login through the first selectors,
\* about to look for headers.
InitTable ==
    /\ pc = "headers"
    /\ playwright = "running"
    /\ browser = "open"
    /\ url = "target"
    /\ idx = 1
    /\ email_filled = TRUE
    /\ password_filled = TRUE
    /\ typed = {}
    /\ clicked = {}
    /\ outcome = "ok"
    /\ caught = "none"
    /\ exc = "none"
    /\ headers = << >>
    /\ header_elements = << >>
    /\ rows_data = << >>
    /\ rows_left = 0
    /\ cells_seen = 0
    /\ csv \in {NoCsv, OldCsv}
    /\ files = {}

\* The run from the extraction to its end, and the normalizer applied once
\* more to its own result.
NextTable ==
    \/ HeaderSelector
    \/ HeaderLabels
    \/ PageState
    \/ RowSelector
    \/ ReadRow
    \/ SynthHeaders
    \/ NormalizeMembers
    \/ NormalizeAgain
    \/ ExportCsv
    \/ NoDataScreenshot
    \/ DumpHtml
    \/ Close
    \/ ExitWith

SpecTable == InitTable /\ [][NextTable]_vars

\* ------------------------------------------------------------ claims

\* The first line of a cell text: the text before its first line break.
FirstLineOf(v) ==
    LET breaks == {i \in 1..Len(v) : CharAt(v, i) = "\n"}
    IN  IF breaks = {} THEN v ELSE SubSeq(v, 1, Min(breaks) - 1)

\* The position of the first "/" of a text that holds one.
FirstSlash(v) == Min({i \in 1..Len(v) : CharAt(v, i) = "/"})

\* The first position of headers labelled exactly "Members".
MembersAt ==
    CHOOSE k \in 1..Len(headers) :
        headers[k] = "Members" /\ \A j \in 1..(k - 1) : headers[j] # "Members"

\* The dated file is the one the run found: neither created nor overwritten.
CsvUntouched == csv \in {NoCsv, OldCsv}

\* C1: when the normalizer runs, every row with a cell at the Members position
\* whose cleaned value (first line, trimmed) holds a "/" gets, at that position,
\* the trimmed text before the FIRST "/" and, next to it, the trimmed text of
\* everything after the first "/".
C1_SplitOnFirstSlash ==
    [][ (pc = "normalize" /\ In("Members", headers)) =>
          \A i \in 1..Len(rows_data) :
              MembersAt <= Len(rows_data[i]) =>
                  LET clean == strip(FirstLineOf(rows_data[i][MembersAt]))
                  IN  Contains(clean, "/") =>
                          /\ rows_data'[i][MembersAt] =
                                 strip(SubSeq(clean, 1, FirstSlash(clean) - 1))
                          /\ rows_data'[i][MembersAt + 1] =
                                 strip(SubSeq(clean, FirstSlash(clean) + 1, Len(clean)))
      ]_vars

\* C2: no stored row ever consists of empty cells only, from extraction through
\* normalization up to export and the end of the run.
C2_NoBlankRow ==
    \A i \in 1..Len(rows_data) : any(rows_data[i])

\* C3: the result handed to the exporter has rows as wide as the headers, or,
\* with no headers, rows of one common width.
C3_WidthInvariant ==
    pc = "export" =>
        IF headers # << >>
        THEN \A i \in 1..Len(rows_data) : Len(rows_data[i]) = Len(headers)
        ELSE \A i, j \in 1..Len(rows_data) : Len(rows_data[i]) = Len(rows_data[j])

\* C4: a run that launched the browser has executed browser.close() by the
\* time it ends, however it ends.
C4_BrowserClosedAtEnd ==
    (pc \in {"done", "failed"} /\ browser # "none") => browser = "closed"

\* C5: when the settle wait after the submit click times out, the run goes on
\* to the navigation to the target address.
C5_SettleTimeoutNonFatal ==
    [][ (pc = "settle" /\ outcome' = "timeout") => pc' = "goto_target" ]_vars

\* C6: when the email cascade matched nothing and the page shows at least two
\* visible inputs, the first input receives the identifier, the second the
\* secret, and the run goes on with the password and submit cascades instead of
\* the login-failure path.
C6_PositionalFallback ==
    [][ pc = "fallback_fill" =>
          /\ <<"input:visible[0]", "username">> \in typed'
          /\ <<"input:visible[1]", "password">> \in typed'
          /\ pc' \notin {"login_error", "unwinding"}
      ]_vars

\* C7: when the extraction ends with no header and no row, the dated file is
\* neither created nor overwritten, the run writes the no_data_found snapshot
\* and then the page_debug markup dump, and it closes the browser and returns
\* without an error; the emptiness itself raises nothing (a run stopped by an
\* error of a page interaction is a failed run, not this path).
C7_EmptyExtractionSoft ==
    (headers = << >> /\ rows_data = << >>) =>
        /\ CsvUntouched
        /\ caught = "none" =>
              /\ pc \in {"dump", "close", "returning", "done"} =>
                     "no_data_found.png" \in files
              /\ pc \in {"close", "returning", "done"} =>
                     "page_debug.html" \in files
              /\ pc \in {"returning", "done"} =>
                     browser = "closed" /\ exc = "none"

\* A run that found nothing, wrote both diagnostics, left the earlier file of
\* the day alone and ended normally.
C7_Witness ==
    /\ pc = "done"
    /\ caught = "none"
    /\ headers = << >> /\ rows_data = << >>
    /\ {"no_data_found.png", "page_debug.html"} \subseteq files
    /\ csv = OldCsv
    /\ browser = "closed"

\* The labels Column_1, Column_2, ... written out.
ColumnNames ==
    << "Column_1", "Column_2", "Column_3", "Column_4", "Column_5", "Column_6" >>

\* C8: when the header cascades gave no label (the page_state snapshot was
\* taken) and a row was kept, then from the synthesis on, through the
\* normalizer and the export, headers are exactly Column_1 .. Column_w for w the
\* cell count of the first kept row, and that is the first record of the CSV.
C8_SyntheticHeaders ==
    ("page_state.png" \in files /\ rows_data # << >>) =>
        /\ pc \in {"normalize", "export", "close", "returning", "done"} =>
               headers = SubSeq(ColumnNames, 1, Len(rows_data[1]))
        /\ pc \in {"close", "returning", "done"} =>
               /\ csv.exists
               /\ csv.records[1] = SubSeq(ColumnNames, 1, Len(rows_data[1]))

\* A finished run with no header on the page and a kept row of two cells:
\* the file starts with Column_1, Column_2.
C8_Witness ==
    /\ pc = "done"
    /\ "page_state.png" \in files
    /\ Len(rows_data) >= 1
    /\ Len(rows_data[1]) = 2
    /\ csv.records[1] = << "Column_1", "Column_2" >>

\* C9: once the login handler has caught an error, the run only takes the
\* snapshot, closes the browser and ends: the snapshot is there before the
\* browser is closed, the target address is never opened, the dated file is
\* untouched and no extraction diagnostic is written.
C9_LoginFailurePath ==
    caught # "none" =>
        /\ pc \in {"login_error", "login_close", "returning", "done",
                   "unwinding", "failed"}
        /\ url # "target"
        /\ CsvUntouched
        /\ files \subseteq {"login_error.png"}
        /\ browser = "closed" => "login_error.png" \in files
        /\ pc \in {"login_close", "returning", "done"} => "login_error.png" \in files
        /\ pc \in {"returning", "done"} => browser = "closed"

\* A run whose settle wait timed out: snapshot taken, browser closed, ended.
C9_Witness ==
    /\ pc = "done"
    /\ caught = "timeout"
    /\ files = {"login_error.png"}
    /\ browser = "closed"
    /\ url = "login"

\* C10: when headers hold "Members", first at position k, the normalizer
\* replaces that one label by "Active Members", "Possible Members" and keeps
\* every other label in place and order (one label more, also with several
\* "Members" columns); every row with a cell at k has that one cell replaced
\* by two and all its other cells kept in order; the number of rows is kept.
C10_ReplacementFrame ==
    [][ (pc = "normalize" /\ In("Members", headers)) =>
          /\ Len(headers') = Len(headers) + 1
          /\ headers'[MembersAt] = "Active Members"
          /\ headers'[MembersAt + 1] = "Possible Members"
          /\ \A j \in 1..Len(headers) :
                 /\ j < MembersAt => headers'[j] = headers[j]
                 /\ j > MembersAt => headers'[j + 1] = headers[j]
          /\ Len(rows_data') = Len(rows_data)
          /\ \A i \in 1..Len(rows_data) :
                 Len(rows_data[i]) >= MembersAt =>
                     /\ Len(rows_data'[i]) = Len(rows_data[i]) + 1
                     /\ \A j \in 1..Len(rows_data[i]) :
                            /\ j < MembersAt => rows_data'[i][j] = rows_data[i][j]
                            /\ j > MembersAt => rows_data'[i][j + 1] = rows_data[i][j]
      ]_vars

\* Two columns labelled "Members": only the first was replaced, and a row of
\* two cells became a row of three with its second cell kept.
C10_Witness ==
    /\ pc = "export"
    /\ headers = << "Active Members", "Possible Members", "Members" >>
    /\ \E i \in 1..Len(rows_data) : rows_data[i] = << "3", "5", "12" >>

\* The pair the first line of a Members cell stands for: with no "/" in the
\* trimmed line, the trimmed line and the empty text; otherwise the trimmed
\* text before its first "/" and the trimmed text from there to the next "/"
\* or the end of the line.
PairOfLine(line) ==
    LET clean == strip(line)
        rest == SubSeq(clean, FirstSlash(clean) + 1, Len(clean))
    IN  IF ~Contains(clean, "/")
        THEN << clean, "" >>
        ELSE << strip(SubSeq(clean, 1, FirstSlash(clean) - 1)),
                strip(IF Contains(rest, "/")
                      THEN SubSeq(rest, 1, FirstSlash(rest) - 1)
                      ELSE rest) >>

\* C11: when the normalizer runs, the two cells it writes for a row depend on
\* the first line of the row's Members cell only (text after the first line
\* break never contributes), and when that line, trimmed, holds no "/" the
\* active value is the whole trimmed line and the possible value is empty.
C11_FirstLineNoSeparator ==
    [][ (pc = "normalize" /\ In("Members", headers)) =>
          \A i \in 1..Len(rows_data) :
              MembersAt <= Len(rows_data[i]) =>
                  LET line == FirstLineOf(rows_data[i][MembersAt])
                  IN  /\ << rows_data'[i][MembersAt], rows_data'[i][MembersAt + 1] >>
                             = PairOfLine(line)
                      /\ ~Contains(strip(line), "/") =>
                             /\ rows_data'[i][MembersAt] = strip(line)
                             /\ rows_data'[i][MembersAt + 1] = ""
      ]_vars

\* A Members cell "11" on its first line with "/1" on its second (kept in the
\* Notes cell): the normalizer wrote "11" and the empty text.
C11_Witness ==
    /\ pc = "export"
    /\ rows_data = << << "TeamA", "11", "", "11\n/1" >> >>

\* C12: the normalizer applied to headers that hold no "Members" label, the
\* result of an earlier application included, changes neither the headers
\* nor any row.
C12_Idempotent ==
    [][ (pc \in {"normalize", "export"}
            /\ \A j \in 1..Len(headers) : headers[j] # "Members") =>
          /\ headers' = headers
          /\ rows_data' = rows_data
      ]_vars

\* The normalizer ran twice on a table with one Members column: the headers
\* and the row are those of the first application.
C12_Witness ==
    /\ pc = "normalized_again"
    /\ headers = << "Name", "Active Members", "Possible Members" >>
    /\ rows_data = << << "12", "3", "5" >> >>

\* The selector list a position of the run works through.
CascadeAt(p) ==
    CASE p = "email" -> email_selectors
      [] p = "password" -> password_selectors
      [] p = "submit" -> submit_selectors
      [] p = "tab" -> tab_selectors
      [] p = "show_all" -> show_all_selectors
      [] p = "headers" -> header_selectors
      [] p = "rows" -> row_selectors

\* C13: in every selector cascade (email, password, submit, tab, show-all,
\* headers, rows), when the query of a candidate that is not the last one
\* raises an error, the candidate counts as not matching and the next
\* candidate of the same cascade is tried.
C13_QueryErrorTriesNext ==
    [][ (/\ pc \in {"email", "password", "submit", "tab", "show_all",
                     "headers", "rows"}
         /\ idx < Len(CascadeAt(pc))
         /\ outcome' \in QueryErrors) =>
          /\ pc' = pc
          /\ idx' = idx + 1
      ]_vars

\* C14: a timeout of a network-settle wait other than the post-login one (the
\* target navigation, the wait after the tab click, the wait after the
\* show-all click) is fatal: the run leaves with the error and goes on to
\* neither extraction nor export.
C14_OtherSettleTimeoutFatal ==
    [][ (pc \in {"goto_target", "tab_settle", "show_all_settle"}
            /\ outcome' = "timeout") =>
          pc' = "unwinding"
      ]_vars

\* C15: the target is opened only after a login in which the email field and
\* the password field were filled and a submit control was clicked.
C15_NavigateAfterLoginSubmitted ==
    [][ (pc = "goto_target" /\ url' = "target") =>
          /\ email_filled
          /\ password_filled
          /\ \E i \in 1..Len(submit_selectors) : submit_selectors[i] \in clicked
      ]_vars

\* C16: the stored rows come from one row selector only, the first in
\* priority order that keeps a row.  Selectors are tried in list order; a
\* selector is queried only while no row is stored; while its rows are read,
\* each kept row is put after the rows stored so far, which stay as they
\* are; after its last row the search ends if a row is stored and goes on
\* to the next selector if it matched rows but none was kept; no other step
\* adds, removes or reorders a row.
C16_OneRowCascade ==
    [][ /\ pc' = "rows" => rows_data' = << >>
        /\ (pc = "rows" /\ pc' = "cells") => (rows_data = << >> /\ idx' = idx)
        /\ (pc = "rows" /\ pc' = "rows") => idx' = idx + 1
        /\ pc = "cells" =>
              /\ \/ rows_data' = rows_data
                 \/ /\ Len(rows_data') = Len(rows_data) + 1
                    /\ SubSeq(rows_data', 1, Len(rows_data)) = rows_data
                    /\ any(rows_data'[Len(rows_data')])
              /\ pc' = "cells" => idx' = idx
              /\ (rows_left = 1 /\ pc' # "unwinding") =>
                    IF rows_data' # << >>
                    THEN pc' = "synth"
                    ELSE IF idx < Len(row_selectors)
                         THEN pc' = "rows" /\ idx' = idx + 1
                         ELSE pc' = "synth"
        /\ pc # "cells" => Len(rows_data') = Len(rows_data)
        /\ pc \notin {"cells", "normalize", "export"} => rows_data' = rows_data
      ]_vars

\* The second row selector at work: the first one kept nothing, this one has
\* kept two rows in the order they were read and has one more row to read.
C16_Witness ==
    /\ pc = "cells"
    /\ idx = 2
    /\ rows_data = << << "12" >>, << "3 / 5\nFull" >> >>
    /\ rows_left = 1

\* The trimmed texts of a list of elements, in its order, the empty ones
\* left out.
RECURSIVE TrimmedNonEmpty(_)
TrimmedNonEmpty(elems) ==
    IF elems = << >> THEN << >>
    ELSE (IF strip(Head(elems)) = "" THEN << >> ELSE << strip(Head(elems)) >>)
             \o TrimmedNonEmpty(Tail(elems))

\* C17: the headers are exactly the non-empty trimmed labels, in document
\* order, of one header selector, the first in priority order that yields
\* one.  Selectors are tried in list order and only while no label is stored;
\* the labels of a selector are stored on the empty list; a selector matching
\* nothing, or only blank elements, is passed over; when the last selector
\* is passed over the headers are empty and page_state.png is written before
\* the rows are looked for; the labels stay as they are until the rows are
\* read.
C17_OneHeaderCascade ==
    [][ /\ pc' = "headers" => headers' = << >>
        /\ pc = "headers" =>
              /\ headers' = headers
              /\ pc' = "headers" => idx' = idx + 1
              /\ pc' = "labels" => idx' = idx
              /\ pc' \in {"headers", "labels", "page_state", "unwinding"}
        /\ (pc = "labels" /\ pc' # "unwinding") =>
              /\ headers = << >>
              /\ headers' = TrimmedNonEmpty(header_elements)
              /\ IF headers' # << >>
                 THEN pc' = "rows"
                 ELSE IF idx < Len(header_selectors)
                      THEN pc' = "headers" /\ idx' = idx + 1
                      ELSE pc' = "page_state"
        /\ pc' = "page_state" => (headers' = << >> /\ idx = Len(header_selectors))
        /\ (pc' \in {"rows", "cells", "synth"} /\ headers' = << >>) =>
              "page_state.png" \in files'
        /\ pc \in {"page_state", "rows", "cells"} => headers' = headers
      ]_vars

\* A header selector gave elements of which one has a text: the headers are
\* its trimmed label alone, no snapshot was taken, the rows come next.
C17_Witness ==
    /\ pc = "rows"
    /\ idx = 1
    /\ outcome = "ok"
    /\ headers = << "Members" >>
    /\ rows_data = << >>
    /\ files = {}

\* C18: when the run reaches the export with headers or at least one row and
\* the writing does not fail, that one step writes the dated CSV, which
\* before it is as the run found it: its first record is the headers when
\* there are any, the records after it are exactly the stored rows in their
\* order (the header record alone when there is no row).  No other step
\* touches the file, and while there are headers or rows neither
\* no_data_found.png nor page_debug.html is written.
C18_ExportRecords ==
    [][ /\ (/\ pc = "export"
            /\ headers # << >> \/ rows_data # << >>
            /\ pc' \notin {"unwinding", "normalized_again"}) =>
              LET first == IF headers # << >> THEN 1 ELSE 0
              IN  /\ pc' = "close"
                  /\ CsvUntouched
                  /\ csv'.exists
                  /\ Len(csv'.records) = first + Len(rows_data)
                  /\ headers # << >> => csv'.records[1] = headers
                  /\ \A i \in 1..Len(rows_data) :
                         csv'.records[first + i] = rows_data[i]
        /\ pc # "export" => csv' = csv
        /\ pc' = "export" => pc = "normalize"
        /\ (headers' # << >> \/ rows_data' # << >>) =>
              /\ "no_data_found.png" \notin files'
              /\ "page_debug.html" \notin files'
      ]_vars

\* A finished run with one header and two rows: the file holds the header
\* record, then the two rows in the order they were stored, and no
\* diagnostic file was written.
C18_Witness ==
    /\ pc = "done"
    /\ headers = << "Name" >>
    /\ rows_data = << << "12" >>, << "/" >> >>
    /\ csv = [exists |-> TRUE, records |-> << << "Name" >>, << "12" >>, << "/" >> >>]
    /\ files = {}

====
